---- MODULE Spec2Model ----
(***************************************************************************)
(* NeuralOS conversational session engine.                                 *)
(*                                                                         *)
(*   SpecVoice  : the Speech Session (services/voice/speechRecognition.ts) *)
(*                on top of the Android SpeechRecognitionModule.           *)
(*   SpecClient : the Completion Client (services/ai/claudeClient.ts),     *)
(*                stream() and send() called directly.                     *)
(*   Spec       : the Conversation Session Controller                      *)
(*                (hooks/useStreamingResponse.ts) driving stream().        *)
(*                                                                         *)
(* JavaScript runs on one cooperative event loop: an action is one         *)
(* macrotask (an API call up to its first real suspension, one native      *)
(* event delivery, one timer expiry, one transport event) together with    *)
(* the microtask continuations it triggers.                                *)
(***************************************************************************)
EXTENDS Integers, Sequences, FiniteSets, TLC

\* ------------------------------------------------------------------------
\* Bounds of the model
\* ------------------------------------------------------------------------
\* pending timers of one kind (stop fallback, error cool-down)
MaxTimers == 1
\* partial results one recognition session reports
MaxPartials == 1
\* native events emitted and not yet delivered to JS
MaxEvQ == 1
\* commands posted to the native main handler and not yet run
MaxCmdQ == 2
\* turns accepted by sendMessage
MaxTurns == 2
\* direct stream() calls, direct send() calls
MaxDirect == 1
MaxSends == 1
\* text deltas the transport delivers in total
MaxDeltas == 2
\* failed stream attempts in total
MaxFailures == 4
\* turns of a long conversation (five completed turns fill the history window)
MaxLongTurns == 6
\* lines of a response text given to the directive parsers
MaxLines == 3

\* ------------------------------------------------------------------------
\* Speech Session state
\* ------------------------------------------------------------------------
VARIABLES
  vState,         \* SpeechRecognition._state
  latestPartial,  \* SpeechRecognition._latestPartial
  hasCallbacks,   \* the four callback slots are registered (not null)
  subscribed,     \* the emitter subscriptions of _setupListeners exist
  stopTimers,     \* pending 1500 ms fallback timers armed by stop()
  errTimers,      \* pending 2000 ms cool-down timers armed by onSpeechError
  cmdQ,           \* commands posted to the native main handler
  rec,            \* the native SpeechRecognizer of SpeechRecognitionModule
  recPartials,    \* partial results the recognizer has emitted this session
  evQ,            \* events emitted to JS and not yet delivered
  finalCount,     \* final-result callbacks invoked since the last start()
  lastFinal,      \* argument of the last final-result callback
  errorCount,     \* error callbacks invoked since the last start()
  lastVoiceError, \* argument of the last error callback
  hasModule,      \* NativeModules.SpeechRecognition exists (this._module)
  micPermission,  \* the app holds the RECORD_AUDIO permission
  cancelled,      \* cancel() ended the capture of the last start()
  liveRecognizers,\* SpeechRecognizer objects created and not destroyed
  staleStopTimers,\* pending stop() timers armed before the last start() returned
  staleErrTimers  \* pending cool-down timers armed before the last start()

\* ------------------------------------------------------------------------
\* Completion Client and Conversation Session Controller state
\* ------------------------------------------------------------------------
VARIABLES
  apiKey,               \* secureStore holds an API key (getApiKey() is truthy)
  initialized,          \* ClaudeClient._isInitialized && client !== null
  stats,                \* _sessionInputTokens/_sessionOutputTokens/_sessionRequestCount
  calls,                \* the stream() calls, by call (= turn) number
  token,                \* token[t]: the AbortSignal given to call t is aborted
  nCalls,               \* stream() calls started so far
  failures,             \* failed stream attempts so far
  nDeltas,              \* text deltas delivered to stream() calls so far
  sends,                \* the send() calls, by number
  nSends,               \* send() calls started so far
  streamState,          \* useStreamingResponse: streamState
  response,             \* useStreamingResponse: response
  error,                \* useStreamingResponse: error
  actions,              \* useStreamingResponse: actions
  cardHeader,           \* useStreamingResponse: cardHeader
  conversationHistory,  \* useStreamingResponse: conversationHistory
  abortRef              \* abortControllerRef.current: the turn it belongs to, 0 = null

\* ------------------------------------------------------------------------
\* Command screen and action executor state
\* ------------------------------------------------------------------------
VARIABLES
  dispatched            \* arguments of the executeAction() calls, in order

screenVars == <<dispatched>>

clientVars == <<apiKey, initialized, stats, calls, token, nCalls, failures,
               nDeltas, sends, nSends>>
hookVars == <<streamState, response, error, actions, cardHeader,
              conversationHistory, abortRef>>
aiVars == <<clientVars, hookVars>>

voiceVars == <<vState, latestPartial, hasCallbacks, subscribed, stopTimers,
               errTimers, cmdQ, rec, recPartials, evQ, finalCount,
               lastFinal, errorCount, lastVoiceError, hasModule,
               micPermission, cancelled, liveRecognizers, staleStopTimers,
               staleErrTimers>>

\* what no step of the Speech Session changes
voiceEnv == <<hasModule, micPermission>>

\* which pending timers an earlier capture armed; timers of equal delay
\* expire in the order they were armed
staleTimers == <<staleStopTimers, staleErrTimers>>

VoiceStates == {"idle", "listening", "processing", "error"}

\* transcripts the platform may report
PartialTexts == {"a"}
\* value[0] of an onSpeechResults event; NoText is an empty value array
NoText == "<undefined>"
ResultPayloads == {NoText, "", "b"}
\* raw error codes of onSpeechError ("" is a missing code)
ErrorCodes == {"7", "99"}
\* SpeechRecognizer.ERROR_INSUFFICIENT_PERMISSIONS
InsufficientPermissions == "9"

ANDROID_ERROR ==
  [c \in {"1", "2", "3", "4", "5", "6", "7", "8", "9", "10", "11", "12", "13"} |->
     CASE c = "1"  -> [code |-> "network_timeout", suggestTyping |-> FALSE]
       [] c = "2"  -> [code |-> "network", suggestTyping |-> FALSE]
       [] c = "3"  -> [code |-> "audio", suggestTyping |-> FALSE]
       [] c = "4"  -> [code |-> "server", suggestTyping |-> FALSE]
       [] c = "5"  -> [code |-> "client", suggestTyping |-> FALSE]
       [] c = "6"  -> [code |-> "speech_timeout", suggestTyping |-> FALSE]
       [] c = "7"  -> [code |-> "no_match", suggestTyping |-> FALSE]
       [] c = "8"  -> [code |-> "recognizer_busy", suggestTyping |-> FALSE]
       [] c = "9"  -> [code |-> "insufficient_perms", suggestTyping |-> TRUE]
       [] c = "10" -> [code |-> "too_many_requests", suggestTyping |-> FALSE]
       [] c = "11" -> [code |-> "server_disconnected", suggestTyping |-> FALSE]
       [] c = "12" -> [code |-> "language_not_supported", suggestTyping |-> FALSE]
       [] OTHER    -> [code |-> "language_unavailable", suggestTyping |-> FALSE]]

\* the error that stands for a code outside the table
UnknownVoiceError == [code |-> "unknown", suggestTyping |-> FALSE]

\* variant: a code outside the table is reported as a client error
mapAndroidErrorClient(code) ==
  IF code \in DOMAIN ANDROID_ERROR THEN ANDROID_ERROR[code] ELSE ANDROID_ERROR["5"]

mapAndroidError(code) ==
  IF code \in DOMAIN ANDROID_ERROR
    THEN ANDROID_ERROR[code]
    ELSE UnknownVoiceError

NoVoiceError == [code |-> "none", suggestTyping |-> FALSE]
\* the error start() reports when there is no native module
NotAvailable == [code |-> "not_available", suggestTyping |-> TRUE]

VoiceInit ==
  /\ vState = "idle"
  /\ latestPartial = ""
  /\ hasCallbacks = TRUE
  /\ subscribed = TRUE
  /\ stopTimers = 0
  /\ errTimers = 0
  /\ cmdQ = <<>>
  /\ rec = "none"
  /\ recPartials = 0
  /\ evQ = <<>>
  /\ finalCount = 0
  /\ lastFinal = ""
  /\ errorCount = 0
  /\ lastVoiceError = NoVoiceError
  /\ cancelled = FALSE
  /\ liveRecognizers = 0
  /\ staleStopTimers = 0
  /\ staleErrTimers = 0

\* variant: start() does not stop a capture that is listening
stopNever(s) == FALSE
\* if (this._state !== 'listening') return;  -- stop() acts in `listening` only
stopMoves(s) == s = "listening"

\* --- start(locale) ------------------------------------------------------
\* `await this.stop()` resumes in a microtask, before any native event or
\* timer can run, so start() is one step.
Start ==
  /\ IF ~hasModule
       THEN /\ vState' = "error"
            /\ errorCount' = IF hasCallbacks THEN 1 ELSE 0
            /\ lastVoiceError' = IF hasCallbacks THEN NotAvailable ELSE lastVoiceError
            /\ UNCHANGED <<stopTimers, cmdQ, latestPartial>>
       ELSE /\ stopTimers < MaxTimers \/ ~stopMoves(vState)
            /\ Len(cmdQ) < MaxCmdQ - (IF stopMoves(vState) THEN 1 ELSE 0)
            /\ stopTimers' = IF stopMoves(vState) THEN stopTimers + 1 ELSE stopTimers
            /\ cmdQ' = (IF stopMoves(vState) THEN Append(cmdQ, "stop") ELSE cmdQ)
                         \o <<"start">>
            /\ latestPartial' = ""
            /\ vState' = "listening"
            /\ errorCount' = 0
            /\ UNCHANGED lastVoiceError
  /\ finalCount' = 0
  /\ cancelled' = FALSE
  /\ staleStopTimers' = stopTimers'
  /\ staleErrTimers' = errTimers
  /\ UNCHANGED <<hasCallbacks, subscribed, errTimers, rec, recPartials, evQ,
                 lastFinal, liveRecognizers>>
  /\ UNCHANGED voiceEnv
  /\ UNCHANGED aiVars
  /\ UNCHANGED screenVars

Stop ==
  /\ stopMoves(vState)
  /\ stopTimers < MaxTimers
  /\ Len(cmdQ) < MaxCmdQ
  /\ vState' = "processing"
  /\ cmdQ' = Append(cmdQ, "stop")
  /\ stopTimers' = stopTimers + 1
  /\ UNCHANGED <<latestPartial, hasCallbacks, subscribed, errTimers, rec,
                 recPartials, evQ, finalCount, lastFinal, errorCount,
                 lastVoiceError, cancelled, liveRecognizers>>
  /\ UNCHANGED voiceEnv
  /\ UNCHANGED staleTimers
  /\ UNCHANGED aiVars
  /\ UNCHANGED screenVars

\* variant: the callback settles only when there is a partial transcript
StopTimerFireOnlyWithPartial ==
  /\ stopTimers > 0
  /\ stopTimers' = stopTimers - 1
  /\ staleStopTimers' = IF staleStopTimers > 0 THEN staleStopTimers - 1 ELSE 0
  /\ UNCHANGED staleErrTimers
  /\ IF vState = "processing" /\ latestPartial # ""
       THEN /\ finalCount' = IF hasCallbacks THEN finalCount + 1 ELSE finalCount
            /\ lastFinal' = IF hasCallbacks THEN latestPartial ELSE lastFinal
            /\ vState' = "idle"
       ELSE UNCHANGED <<vState, finalCount, lastFinal>>
  /\ UNCHANGED <<latestPartial, hasCallbacks, subscribed, errTimers, cmdQ, rec,
                 recPartials, evQ, errorCount, lastVoiceError, cancelled,
                 liveRecognizers>>
  /\ UNCHANGED voiceEnv
  /\ UNCHANGED aiVars
  /\ UNCHANGED screenVars

\* the setTimeout callback of stop()
StopTimerFire ==
  /\ stopTimers > 0
  /\ stopTimers' = stopTimers - 1
  /\ staleStopTimers' = IF staleStopTimers > 0 THEN staleStopTimers - 1 ELSE 0
  /\ UNCHANGED staleErrTimers
  /\ IF vState = "processing" /\ latestPartial # ""
       THEN /\ finalCount' = IF hasCallbacks THEN finalCount + 1 ELSE finalCount
            /\ lastFinal' = IF hasCallbacks THEN latestPartial ELSE lastFinal
            /\ vState' = "idle"
       ELSE /\ vState' = IF vState = "processing" THEN "idle" ELSE vState
            /\ UNCHANGED <<finalCount, lastFinal>>
  /\ UNCHANGED <<latestPartial, hasCallbacks, subscribed, errTimers, cmdQ, rec,
                 recPartials, evQ, errorCount, lastVoiceError, cancelled,
                 liveRecognizers>>
  /\ UNCHANGED voiceEnv
  /\ UNCHANGED aiVars
  /\ UNCHANGED screenVars

Cancel ==
  /\ IF hasModule
       THEN Len(cmdQ) < MaxCmdQ /\ cmdQ' = Append(cmdQ, "cancel")
       ELSE cmdQ' = cmdQ
  /\ latestPartial' = ""
  /\ vState' = "idle"
  /\ cancelled' = (cancelled \/ vState \in {"listening", "processing"})
  /\ UNCHANGED <<hasCallbacks, subscribed, stopTimers, errTimers, rec,
                 recPartials, evQ, finalCount, lastFinal, errorCount,
                 lastVoiceError, liveRecognizers>>
  /\ UNCHANGED voiceEnv
  /\ UNCHANGED staleTimers
  /\ UNCHANGED aiVars
  /\ UNCHANGED screenVars

Destroy ==
  /\ IF hasModule
       THEN Len(cmdQ) < MaxCmdQ /\ cmdQ' = Append(cmdQ, "destroy")
       ELSE cmdQ' = cmdQ
  /\ subscribed' = FALSE
  /\ hasCallbacks' = FALSE
  /\ vState' = "idle"
  /\ UNCHANGED <<latestPartial, stopTimers, errTimers, rec, recPartials, evQ,
                 finalCount, lastFinal, errorCount, lastVoiceError, cancelled,
                 liveRecognizers>>
  /\ UNCHANGED voiceEnv
  /\ UNCHANGED staleTimers
  /\ UNCHANGED aiVars
  /\ UNCHANGED screenVars

\* ------------------------------------------------------------------------
\* SpeechRecognitionModule (Kotlin): each @ReactMethod posts to the main
\* handler; NativeStep runs the posted block at the head of the queue.
\* ------------------------------------------------------------------------
Ev(type, value) == [type |-> type, value |-> value]

\* speechRecognizer?.destroy(): the live recognizers once the one the field
\* holds, if any, is destroyed
afterDestroy == IF rec # "none" THEN liveRecognizers - 1 ELSE liveRecognizers

NativeStep ==
  /\ cmdQ # <<>>
  /\ cmdQ' = Tail(cmdQ)
  /\ LET c == Head(cmdQ) IN
       CASE c = "start" ->
              /\ rec' = "starting"
              /\ liveRecognizers' = afterDestroy + 1
              /\ recPartials' = 0
              /\ evQ' = evQ
         [] c = "stop" ->
              /\ rec' = IF rec \in {"starting", "listening"} THEN "ended" ELSE rec
              /\ UNCHANGED <<recPartials, evQ, liveRecognizers>>
         [] c = "cancel" ->
              /\ Len(evQ) < MaxEvQ
              /\ rec' = IF rec = "none" THEN "none" ELSE "finished"
              /\ evQ' = Append(evQ, Ev("onSpeechCancel", ""))
              /\ UNCHANGED <<recPartials, liveRecognizers>>
         [] OTHER ->
              /\ rec' = "none"
              /\ liveRecognizers' = afterDestroy
              /\ UNCHANGED <<recPartials, evQ>>
  /\ UNCHANGED <<vState, latestPartial, hasCallbacks, subscribed, stopTimers,
                 errTimers, finalCount, lastFinal, errorCount, lastVoiceError,
                 cancelled>>
  /\ UNCHANGED voiceEnv
  /\ UNCHANGED staleTimers
  /\ UNCHANGED aiVars
  /\ UNCHANGED screenVars

\* RecognitionListener callbacks: what the Android recognizer may report in
\* each phase of one recognition session (at most one onResults or onError
\* ends it).
PlatformEmit ==
  /\ Len(evQ) < MaxEvQ
  /\ \/ /\ rec = "starting"
        /\ micPermission
        /\ rec' = "listening"
        /\ evQ' = Append(evQ, Ev("onSpeechStart", ""))
        /\ UNCHANGED recPartials
     \/ /\ rec = "listening"
        /\ recPartials < MaxPartials
        /\ \E t \in PartialTexts \cup {NoText} :
             evQ' = Append(evQ, Ev("onSpeechPartialResults", t))
        /\ recPartials' = recPartials + 1
        /\ UNCHANGED rec
     \/ /\ rec = "listening"
        /\ rec' = "ended"
        /\ evQ' = Append(evQ, Ev("onSpeechEnd", ""))
        /\ UNCHANGED recPartials
     \/ /\ rec = "ended"
        /\ micPermission
        /\ rec' = "finished"
        /\ \E t \in ResultPayloads : evQ' = Append(evQ, Ev("onSpeechResults", t))
        /\ UNCHANGED recPartials
     \/ /\ rec \in {"starting", "listening", "ended"}
        /\ rec' = "finished"
        /\ \E c \in (IF micPermission THEN ErrorCodes ELSE {InsufficientPermissions}) :
             evQ' = Append(evQ, Ev("onSpeechError", c))
        /\ UNCHANGED recPartials
  /\ UNCHANGED <<vState, latestPartial, hasCallbacks, subscribed, stopTimers,
                 errTimers, cmdQ, finalCount, lastFinal, errorCount,
                 lastVoiceError, cancelled, liveRecognizers>>
  /\ UNCHANGED voiceEnv
  /\ UNCHANGED staleTimers
  /\ UNCHANGED aiVars
  /\ UNCHANGED screenVars

\* ------------------------------------------------------------------------
\* Listeners of _setupListeners: delivery of the oldest pending event
\* ------------------------------------------------------------------------
Delivering(type) == evQ # <<>> /\ Head(evQ).type = type /\ subscribed

\* an event emitted after destroy() removed the subscriptions is dropped
DropEvent ==
  /\ evQ # <<>>
  /\ ~subscribed
  /\ evQ' = Tail(evQ)
  /\ UNCHANGED <<vState, latestPartial, hasCallbacks, subscribed, stopTimers,
                 errTimers, cmdQ, rec, recPartials, finalCount, lastFinal,
                 errorCount, lastVoiceError>>
  /\ UNCHANGED <<cancelled, liveRecognizers>>
  /\ UNCHANGED voiceEnv
  /\ UNCHANGED staleTimers
  /\ UNCHANGED aiVars
  /\ UNCHANGED screenVars

OnSpeechStart ==
  /\ Delivering("onSpeechStart")
  /\ evQ' = Tail(evQ)
  /\ vState' = "listening"
  /\ UNCHANGED <<latestPartial, hasCallbacks, subscribed, stopTimers, errTimers,
                 cmdQ, rec, recPartials, finalCount, lastFinal, errorCount,
                 lastVoiceError>>
  /\ UNCHANGED <<cancelled, liveRecognizers>>
  /\ UNCHANGED voiceEnv
  /\ UNCHANGED staleTimers
  /\ UNCHANGED aiVars
  /\ UNCHANGED screenVars

OnSpeechPartialResults ==
  /\ Delivering("onSpeechPartialResults")
  /\ evQ' = Tail(evQ)
  /\ LET v == Head(evQ).value
         text == IF v = NoText THEN "" ELSE v
     IN latestPartial' = IF text # "" THEN text ELSE latestPartial
  /\ UNCHANGED <<vState, hasCallbacks, subscribed, stopTimers, errTimers, cmdQ,
                 rec, recPartials, finalCount, lastFinal, errorCount,
                 lastVoiceError>>
  /\ UNCHANGED <<cancelled, liveRecognizers>>
  /\ UNCHANGED voiceEnv
  /\ UNCHANGED staleTimers
  /\ UNCHANGED aiVars
  /\ UNCHANGED screenVars

\* event?.value?.[0] ?? this._latestPartial ?? ''
resultText(v, partial) == IF v = NoText THEN partial ELSE v

OnSpeechResults ==
  /\ Delivering("onSpeechResults")
  /\ evQ' = Tail(evQ)
  /\ LET text == resultText(Head(evQ).value, latestPartial) IN
       IF text # "" /\ hasCallbacks
         THEN finalCount' = finalCount + 1 /\ lastFinal' = text
         ELSE UNCHANGED <<finalCount, lastFinal>>
  /\ latestPartial' = ""
  /\ vState' = "idle"
  /\ UNCHANGED <<hasCallbacks, subscribed, stopTimers, errTimers, cmdQ, rec,
                 recPartials, errorCount, lastVoiceError>>
  /\ UNCHANGED <<cancelled, liveRecognizers>>
  /\ UNCHANGED voiceEnv
  /\ UNCHANGED staleTimers
  /\ UNCHANGED aiVars
  /\ UNCHANGED screenVars

OnSpeechEnd ==
  /\ Delivering("onSpeechEnd")
  /\ evQ' = Tail(evQ)
  /\ vState' = IF vState = "listening" THEN "processing" ELSE vState
  /\ UNCHANGED <<latestPartial, hasCallbacks, subscribed, stopTimers, errTimers,
                 cmdQ, rec, recPartials, finalCount, lastFinal, errorCount,
                 lastVoiceError>>
  /\ UNCHANGED <<cancelled, liveRecognizers>>
  /\ UNCHANGED voiceEnv
  /\ UNCHANGED staleTimers
  /\ UNCHANGED aiVars
  /\ UNCHANGED screenVars

OnSpeechError ==
  /\ Delivering("onSpeechError")
  /\ errTimers < MaxTimers
  /\ evQ' = Tail(evQ)
  /\ vState' = "error"
  /\ IF hasCallbacks
       THEN /\ errorCount' = errorCount + 1
            /\ lastVoiceError' = mapAndroidError(Head(evQ).value)
       ELSE UNCHANGED <<errorCount, lastVoiceError>>
  /\ errTimers' = errTimers + 1
  /\ UNCHANGED <<latestPartial, hasCallbacks, subscribed, stopTimers, cmdQ, rec,
                 recPartials, finalCount, lastFinal>>
  /\ UNCHANGED <<cancelled, liveRecognizers>>
  /\ UNCHANGED voiceEnv
  /\ UNCHANGED staleTimers
  /\ UNCHANGED aiVars
  /\ UNCHANGED screenVars

\* the setTimeout callback of the onSpeechError listener
ErrTimerFire ==
  /\ errTimers > 0
  /\ errTimers' = errTimers - 1
  /\ staleErrTimers' = IF staleErrTimers > 0 THEN staleErrTimers - 1 ELSE 0
  /\ UNCHANGED staleStopTimers
  /\ vState' = IF vState = "error" THEN "idle" ELSE vState
  /\ UNCHANGED <<latestPartial, hasCallbacks, subscribed, stopTimers, cmdQ, rec,
                 recPartials, evQ, finalCount, lastFinal, errorCount,
                 lastVoiceError>>
  /\ UNCHANGED <<cancelled, liveRecognizers>>
  /\ UNCHANGED voiceEnv
  /\ UNCHANGED aiVars
  /\ UNCHANGED screenVars

OnSpeechCancel ==
  /\ Delivering("onSpeechCancel")
  /\ evQ' = Tail(evQ)
  /\ vState' = "idle"
  /\ UNCHANGED <<latestPartial, hasCallbacks, subscribed, stopTimers, errTimers,
                 cmdQ, rec, recPartials, finalCount, lastFinal, errorCount,
                 lastVoiceError>>
  /\ UNCHANGED <<cancelled, liveRecognizers>>
  /\ UNCHANGED voiceEnv
  /\ UNCHANGED staleTimers
  /\ UNCHANGED aiVars
  /\ UNCHANGED screenVars

VoiceNext ==
  \/ Start \/ Stop \/ Cancel \/ Destroy
  \/ StopTimerFire \/ ErrTimerFire
  \/ NativeStep \/ PlatformEmit \/ DropEvent
  \/ OnSpeechStart \/ OnSpeechPartialResults \/ OnSpeechResults
  \/ OnSpeechEnd \/ OnSpeechError \/ OnSpeechCancel


\* ========================================================================
\* Completion Client (services/ai/claudeClient.ts)
\* ========================================================================
MAX_RETRIES == 3
BASE_RETRY_DELAY_MS == 1000
HistoryWindow == 10

RECURSIVE Pow2(_)
Pow2(n) == IF n <= 0 THEN 1 ELSE 2 * Pow2(n - 1)

\* --- transport errors ---------------------------------------------------
\* A raw error is its name, the substrings of classifyError that its
\* lower-cased message contains, and the number following "retry-after" in
\* the message (-1 when there is none).
Raw(name, has, retryAfter) == [name |-> name, has |-> has, retryAfter |-> retryAfter]

NetworkError == Raw("TypeError", {"network"}, -1)
AuthError == Raw("Error", {"401", "authentication"}, -1)
RateError == Raw("Error", {"429", "rate limit"}, 15)
\* "400 ... invalid_request_error": "400" is none of the substrings of
\* classifyError
BadRequestError == Raw("Error", {"400"}, -1)
RawErrors == {NetworkError, AuthError, RateError, BadRequestError}

\* no raw error
NoRaw == Raw("<none>", {}, -1)

AI(type, retryable, retryAfterMs) ==
  [type |-> type, retryable |-> retryable, retryAfterMs |-> retryAfterMs]

\* no error (null); retryAfterMs 0 stands for an absent retryAfterMs
NoError == AI("none", FALSE, 0)
\* a plain Error thrown outside the retry loop, never classified
Unclassified == AI("unclassified", FALSE, 0)

classifyError(e) ==
  IF e.name = "AbortError" \/ "aborted" \in e.has
    THEN AI("timeout", FALSE, 0)
  ELSE IF e.has \cap {"network", "fetch", "econnrefused", "enotfound"} # {}
    THEN AI("network", TRUE, 2000)
  ELSE IF e.has \cap {"401", "unauthorized", "authentication"} # {}
    THEN AI("auth", FALSE, 0)
  ELSE IF e.has \cap {"429", "rate limit", "too many"} # {}
    THEN AI("rate_limit", TRUE,
            IF e.retryAfter >= 0 THEN e.retryAfter * 1000 ELSE 10000)
  ELSE IF e.has \cap {"500", "502", "503", "529", "overloaded"} # {}
    THEN AI("server", TRUE, 3000)
  ELSE IF e.has \cap {"timeout", "timed out"} # {}
    THEN AI("timeout", TRUE, 2000)
  ELSE AI("unknown", TRUE, 2000)

\* variant: the ceiling test lets one more retry through
ShouldThrowLate(e, retries) == ~e.retryable \/ retries > MAX_RETRIES

\* if (!aiError.retryable || retries >= MAX_RETRIES) throw aiError
ShouldThrow(e, retries) == ~e.retryable \/ retries >= MAX_RETRIES

\* variant: the wait follows the exponential schedule alone
RetryDelayExponential(e, retries) == BASE_RETRY_DELAY_MS * Pow2(retries - 1)

\* aiError.retryAfterMs || BASE_RETRY_DELAY_MS * Math.pow(2, retries - 1)
RetryDelay(e, retries) ==
  IF e.retryAfterMs # 0
    THEN e.retryAfterMs
    ELSE BASE_RETRY_DELAY_MS * Pow2(retries - 1)

\* --- response text ------------------------------------------------------
\* Text is a sequence of atoms:
\*   "txt"      text without a line break or a blank
\*   "sp"       blanks
\*   "nl"       a line break
\*   "CARD:{T"  CARD: {"title":"T"     (the object is still open)
\*   "CARD:{N"  CARD: {"icon":"i"      (an object without title, still open)
\*   "}"        the closing brace
\*   "ACT:["    ACTIONS: [             (the array is open)
\*   "]"        the closing bracket
\* and, between "ACT:[" and "]", the elements of the array:
\*   "eA"    {"label":"A","command":"c"}
\*   "eW"    {"label":"W","command":"w","variant":"warning","params":{"k":"v"}}
\*   "eP"    {"label":"P","command":"p","variant":"purple"}
\*   "eL"    {"label":"L"}
\*   "e5"    {"label":5,"command":"c"}
\*   "7"     7
\*   "null"  null
\*   "e.."   {"label":                 (an element cut short)
Deltas == {<<"txt">>, <<"CARD:{T", "}">>}
OtherEvent == <<"<event>">>
NoChunk == <<"<none>">>

IsPrefix(a, b) == Len(a) <= Len(b) /\ SubSeq(b, 1, Len(a)) = a

RECURSIVE SplitLines(_)
SplitLines(text) ==
  IF \A i \in 1..Len(text) : text[i] # "nl"
    THEN <<text>>
    ELSE LET i == CHOOSE k \in 1..Len(text) :
                    text[k] = "nl" /\ \A j \in 1..(k - 1) : text[j] # "nl"
         IN <<SubSeq(text, 1, i - 1)>> \o SplitLines(SubSeq(text, i + 1, Len(text)))

\* what \s matches
Whitespace == {"sp", "nl"}

\* index of the last atom of a line that the trailing \s*$ does not cover
LastNonSp(l) ==
  IF \A i \in 1..Len(l) : l[i] = "sp"
    THEN 0
    ELSE CHOOSE i \in 1..Len(l) :
           l[i] # "sp" /\ \A j \in (i + 1)..Len(l) : l[j] = "sp"

\* outcome of a block that may throw
Outcome(threw, value) == [threw |-> threw, value |-> value]

\* variant: no catch clause, the exception reaches the caller
NoCatch(r, fallback) == r.value

\* try { ... } catch { return fallback }
TryCatch(r, fallback) == IF r.threw THEN fallback ELSE r.value

\* a property that is absent (undefined)
Undefined == "<undefined>"

NoCard == [title |-> ""]
\* stands for an exception that left parseCardHeader
ThrownCard == [title |-> "<exception>"]

\* text.match(/^CARD:\s*(\{.*\})\s*$/m): the lines the pattern matches
CardOpeners == {"CARD:{T", "CARD:{N"}
IsCardLine(l) == LastNonSp(l) >= 2 /\ l[1] \in CardOpeners /\ l[LastNonSp(l)] = "}"

\* the try block of parseCardHeader on the line the pattern matched
cardBody(l) ==
  LET json == SubSeq(l, 1, LastNonSp(l)) IN
    IF json = <<"CARD:{T", "}">> THEN Outcome(FALSE, [title |-> "T"])
    ELSE IF json = <<"CARD:{N", "}">> THEN Outcome(FALSE, NoCard)
    ELSE Outcome(TRUE, ThrownCard)

parseCardHeader(text) ==
  LET ls == SelectSeq(SplitLines(text), IsCardLine) IN
    IF ls = <<>> THEN NoCard ELSE TryCatch(cardBody(ls[1]), NoCard)

\* text.match(/^ACTIONS:\s*(\[.*\])\s*$/m): the lines the pattern matches
IsActionsLine(l) == LastNonSp(l) >= 2 /\ l[1] = "ACT:[" /\ l[LastNonSp(l)] = "]"

\* the values JSON.parse gives for the elements
ElementAtoms == {"eA", "eW", "eP", "eL", "e5", "7", "null"}
Element(e) ==
  CASE e = "eA" -> [label |-> "A", command |-> "c", variant |-> Undefined,
                    params |-> Undefined]
    [] e = "eW" -> [label |-> "W", command |-> "w", variant |-> "warning",
                    params |-> "k=v"]
    [] e = "eP" -> [label |-> "P", command |-> "p", variant |-> "purple",
                    params |-> Undefined]
    [] e = "eL" -> [label |-> "L", command |-> Undefined, variant |-> Undefined,
                    params |-> Undefined]
    [] e = "e5" -> [label |-> "#5", command |-> "c", variant |-> Undefined,
                    params |-> Undefined]
    [] OTHER    -> [label |-> Undefined, command |-> Undefined,
                    variant |-> Undefined, params |-> Undefined]

\* typeof v === 'string'  ("#5" is the number 5)
IsString(v) == v \notin {Undefined, "#5"}

\* the filter callback, for an element that is not null
HasLabelAndCommand(e) == IsString(Element(e).label) /\ IsString(Element(e).command)

\* the map callback
toAction(a) ==
  [label |-> a.label, command |-> a.command,
   variant |-> IF a.variant = Undefined THEN "default" ELSE a.variant,
   params |-> a.params]

\* stands for an exception that left parseActions
ThrownActions ==
  <<[label |-> "<exception>", command |-> "", variant |-> "", params |-> ""]>>

\* the try block of parseActions on the line the pattern matched: JSON.parse
\* throws on text that is not JSON, a.label throws on null
actionsBody(l) ==
  LET elems == SubSeq(l, 2, LastNonSp(l) - 1)
      kept == SelectSeq(elems, HasLabelAndCommand)
  IN IF \E i \in 1..Len(elems) : elems[i] \notin ElementAtoms
       THEN Outcome(TRUE, ThrownActions)
     ELSE IF \E i \in 1..Len(elems) : elems[i] = "null"
       THEN Outcome(TRUE, ThrownActions)
     ELSE Outcome(FALSE, [i \in 1..Len(kept) |-> toAction(Element(kept[i]))])

parseActions(text) ==
  LET ls == SelectSeq(SplitLines(text), IsActionsLine) IN
    IF ls = <<>> THEN <<>> ELSE TryCatch(actionsBody(ls[1]), <<>>)

\* String.prototype.trim
RECURSIVE Trim(_)
Trim(text) ==
  IF text = <<>> THEN text
  ELSE IF Head(text) \in Whitespace THEN Trim(Tail(text))
  ELSE IF text[Len(text)] \in Whitespace THEN Trim(SubSeq(text, 1, Len(text) - 1))
  ELSE text

\* last index of the line that starts at p
LineEnd(text, p) ==
  CHOOSE q \in (p - 1)..Len(text) :
    /\ \A i \in p..q : text[i] # "nl"
    /\ q = Len(text) \/ text[q + 1] = "nl"

\* the pattern of a directive matches the line
LineMatches(directive, l) ==
  IF directive = "CARD" THEN IsCardLine(l) ELSE IsActionsLine(l)

\* text.replace(/^...\s*$/m, ''): the first match is removed; its trailing
\* \s*$ takes the longest run of whitespace that stops at the end of a line
RemoveFirst(text, directive) ==
  LET starts == {p \in 1..Len(text) :
                   /\ p = 1 \/ text[p - 1] = "nl"
                   /\ LineMatches(directive, SubSeq(text, p, LineEnd(text, p)))}
  IN IF starts = {} THEN text
     ELSE LET p == CHOOSE x \in starts : \A y \in starts : x <= y
              k == p - 1 + LastNonSp(SubSeq(text, p, LineEnd(text, p)))
              ends == {e \in k..Len(text) :
                         /\ \A i \in (k + 1)..e : text[i] \in Whitespace
                         /\ e = Len(text) \/ text[e + 1] = "nl"}
              e == CHOOSE x \in ends : \A y \in ends : y <= x
          IN SubSeq(text, 1, p - 1) \o SubSeq(text, e + 1, Len(text))

\* variant: the result is not trimmed
getDisplayTextUntrimmed(text) ==
  RemoveFirst(RemoveFirst(text, "CARD"), "ACTIONS")

getDisplayText(text) ==
  Trim(RemoveFirst(RemoveFirst(text, "CARD"), "ACTIONS"))

\* the hook's return value displayText
displayText == getDisplayText(response)

\* --- messages -----------------------------------------------------------
Msg(role, content) == [role |-> role, content |-> content]
UserTexts == {"hi"}
BlankText == " "

\* variant: the history is passed whole
SliceAll(h, n) == h

\* Array.prototype.slice(-n)
SliceLast(h, n) == IF Len(h) <= n THEN h ELSE SubSeq(h, Len(h) - n + 1, Len(h))

\* messages = [...options.conversationHistory, {role:'user', content}]
BuildMessages(history, userMessage) == Append(history, Msg("user", userMessage))

\* --- one stream() call --------------------------------------------------
NoCall ==
  [pc |-> "none",          \* none | open | backoff | returned | raised
   consumer |-> "none",    \* hook | direct
   retries |-> 0,
   attempts |-> 0,         \* client.messages.stream(...) invocations
   acc |-> <<>>,           \* `accumulated` of the current attempt
   delay |-> 0,            \* argument of the last sleep()
   lastErr |-> NoError,    \* classification of the last failed attempt
   originalError |-> NoRaw,\* its originalError: the raw error classified
   hint |-> -1,            \* retry-after (s) in the last failure's message
   thrown |-> NoError,     \* what the call threw
   nThrown |-> 0,
   chunks |-> 0,           \* chunks yielded
   completes |-> 0,        \* isComplete chunks yielded
   lastAcc |-> NoChunk,    \* `accumulated` of the last chunk
   messages |-> <<>>,      \* the message list of the request
   updatedHistory |-> <<>>,\* sendMessage: updatedHistory
   cardClosure |-> NoCard] \* sendMessage: cardHeader of its closure

Active(c) == c.pc \in {"open", "backoff"}

\* client.messages.stream({...}) at the top of the retry loop
openRequest(c) ==
  [c EXCEPT !.pc = "open", !.attempts = @ + 1, !.acc = <<>>]

yieldChunk(c, acc, complete) ==
  [c EXCEPT !.chunks = @ + 1,
            !.completes = @ + (IF complete THEN 1 ELSE 0),
            !.lastAcc = acc]

\* the catch block of the retry loop, on the raw error of the attempt
afterFailure(c, raw) ==
  LET e == classifyError(raw)
      c1 == [c EXCEPT !.lastErr = e, !.originalError = raw,
                     !.hint = raw.retryAfter]
  IN IF ShouldThrow(e, c.retries)
       THEN [c1 EXCEPT !.pc = "raised", !.thrown = e, !.nThrown = @ + 1]
       ELSE [c1 EXCEPT !.pc = "backoff", !.retries = @ + 1,
                       !.delay = RetryDelay(e, c.retries + 1)]

\* while (retries <= MAX_RETRIES) after the sleep
afterSleep(c) ==
  IF c.retries <= MAX_RETRIES THEN openRequest(c) ELSE [c EXCEPT !.pc = "returned"]

\* if (options.abortSignal?.aborted) at the head of the event loop body
AbortSeen(t) == token[t]

Usages == {[in |-> 2, out |-> 1]}
addUsage(st, u) ==
  [inputTokens |-> st.inputTokens + u.in,
   outputTokens |-> st.outputTokens + u.out,
   requestCount |-> st.requestCount + 1]

\* ========================================================================
\* Conversation Session Controller (hooks/useStreamingResponse.ts)
\* ========================================================================
\* the error the catch block builds for a thrown value without a `type`
UnknownHookError == AI("unknown", TRUE, 0)

\* variant: the consumer loop does not look at its abort signal
HookNeverSkips(t) == FALSE

\* if (abortController.signal.aborted || !mountedRef.current) return;
\* mountedRef.current is never set to false
HookSkips(t) == token[t]

\* finally { if (abortControllerRef.current === abortController) ... = null }
finallyRef(t) == IF abortRef = t THEN 0 ELSE abortRef

\* body of the for-await loop for one chunk of turn t
HookOnChunk(t, acc, complete) ==
  IF HookSkips(t)
    THEN /\ abortRef' = finallyRef(t)
         /\ UNCHANGED <<streamState, response, error, actions, cardHeader,
                        conversationHistory>>
    ELSE LET card == parseCardHeader(acc)
             early == IF calls[t].cardClosure = NoCard /\ card # NoCard
                        THEN card ELSE cardHeader
         IN /\ response' = acc
            /\ error' = error
            /\ IF complete
                 THEN /\ actions' = parseActions(acc)
                      /\ cardHeader' = IF card # NoCard THEN card ELSE early
                      /\ conversationHistory' =
                           Append(calls[t].updatedHistory, Msg("assistant", acc))
                      /\ streamState' = "complete"
                      /\ abortRef' = finallyRef(t)
                 ELSE /\ cardHeader' = early
                      /\ UNCHANGED <<actions, conversationHistory, streamState,
                                     abortRef>>

\* variant: the catch block commits the failed turn's user message
HookOnThrowKeepsUser(t, e) ==
  /\ IF token[t]
       THEN /\ streamState' = "idle"
            /\ UNCHANGED <<error, conversationHistory>>
       ELSE /\ error' = IF e.type \in {"none", "unclassified"}
                          THEN AI("unknown", TRUE, 0) ELSE e
            /\ streamState' = "error"
            /\ conversationHistory' = calls[t].updatedHistory
  /\ abortRef' = IF abortRef = t THEN 0 ELSE abortRef
  /\ UNCHANGED <<response, actions, cardHeader>>

\* variant: the catch block leaves streamState and error as they are
HookOnThrowSilent(t, e) ==
  /\ abortRef' = finallyRef(t)
  /\ UNCHANGED <<streamState, response, error, actions, cardHeader,
                 conversationHistory>>

\* the catch block, then finally
HookOnThrow(t, e) ==
  /\ IF token[t]
       THEN /\ streamState' = "idle"
            /\ error' = error
       ELSE /\ error' = IF e.type \in {"none", "unclassified"}
                          THEN UnknownHookError ELSE e
            /\ streamState' = "error"
  /\ abortRef' = finallyRef(t)
  /\ UNCHANGED <<response, actions, cardHeader, conversationHistory>>

\* the generator finished without a further chunk: the loop ends, then finally
HookOnReturn(t) ==
  /\ abortRef' = finallyRef(t)
  /\ UNCHANGED <<streamState, response, error, actions, cardHeader,
                 conversationHistory>>

ByHook(t) == calls[t].consumer = "hook"
ConsumeChunk(t, acc, complete) ==
  IF ByHook(t) THEN HookOnChunk(t, acc, complete) ELSE UNCHANGED hookVars
ConsumeThrow(t, e) ==
  IF ByHook(t) THEN HookOnThrow(t, e) ELSE UNCHANGED hookVars
ConsumeReturn(t) ==
  IF ByHook(t) THEN HookOnReturn(t) ELSE UNCHANGED hookVars
\* a consumer that returns out of its loop closes the generator
ConsumerLeaves(t) == ByHook(t) /\ HookSkips(t)

\* --- stream(): steps of the generator, each with its consumer's reaction --
\* one event of the SDK stream arrives
StreamEventFrom(t, deltas) ==
  /\ calls[t].pc = "open"
  /\ \E ev \in deltas \cup {OtherEvent} :
       IF AbortSeen(t)
         THEN /\ calls' = [calls EXCEPT ![t].pc = "returned"]
              /\ ConsumeReturn(t)
              /\ UNCHANGED nDeltas
         ELSE IF ev = OtherEvent
           THEN UNCHANGED <<calls, hookVars, nDeltas>>
           ELSE /\ nDeltas < MaxDeltas
                /\ nDeltas' = nDeltas + 1
                /\ LET acc == calls[t].acc \o ev
                       c1 == yieldChunk([calls[t] EXCEPT !.acc = acc], acc, FALSE)
                   IN /\ calls' = [calls EXCEPT ![t] =
                                     IF ConsumerLeaves(t)
                                       THEN [c1 EXCEPT !.pc = "returned"] ELSE c1]
                      /\ ConsumeChunk(t, acc, FALSE)
  /\ UNCHANGED <<apiKey, initialized, stats, token, nCalls, failures, sends, nSends>>
  /\ UNCHANGED voiceVars
  /\ UNCHANGED screenVars

StreamEvent(t) == StreamEventFrom(t, Deltas)

\* the SDK stream ends: finalMessage(), the stats, the final chunk
StreamEnd(t) ==
  /\ calls[t].pc = "open"
  /\ \E u \in Usages : stats' = addUsage(stats, u)
  /\ calls' = [calls EXCEPT ![t] =
                 [yieldChunk(calls[t], calls[t].acc, TRUE) EXCEPT !.pc = "returned"]]
  /\ ConsumeChunk(t, calls[t].acc, TRUE)
  /\ UNCHANGED <<apiKey, initialized, token, nCalls, failures, nDeltas, sends, nSends>>
  /\ UNCHANGED voiceVars
  /\ UNCHANGED screenVars

\* the request or the iteration throws
StreamFail(t) ==
  /\ calls[t].pc = "open"
  /\ failures < MaxFailures
  /\ failures' = failures + 1
  /\ \E r \in RawErrors :
       LET c1 == afterFailure(calls[t], r) IN
         /\ calls' = [calls EXCEPT ![t] = c1]
         /\ IF c1.pc = "raised"
              THEN ConsumeThrow(t, c1.thrown)
              ELSE UNCHANGED hookVars
  /\ UNCHANGED <<apiKey, initialized, stats, token, nCalls, nDeltas, sends, nSends>>
  /\ UNCHANGED voiceVars
  /\ UNCHANGED screenVars

\* sleep(delay) is over
BackoffWake(t) ==
  /\ calls[t].pc = "backoff"
  /\ LET c1 == afterSleep(calls[t]) IN
       /\ calls' = [calls EXCEPT ![t] = c1]
       /\ IF c1.pc = "returned" THEN ConsumeReturn(t) ELSE UNCHANGED hookVars
  /\ UNCHANGED <<apiKey, initialized, stats, token, nCalls, failures, nDeltas, sends, nSends>>
  /\ UNCHANGED voiceVars
  /\ UNCHANGED screenVars

\* --- controller API -----------------------------------------------------
abortCurrent == IF abortRef # 0 THEN [token EXCEPT ![abortRef] = TRUE] ELSE token

\* sendMessage(text) for a text that is not blank
sendMessage(text) ==
  LET t == nCalls + 1
      updatedHistory == Append(conversationHistory, Msg("user", text))
      c0 == [NoCall EXCEPT !.consumer = "hook",
                           !.updatedHistory = updatedHistory,
                           !.cardClosure = cardHeader]
  IN /\ nCalls' = t
     /\ token' = abortCurrent
     /\ response' = <<>>
     /\ actions' = <<>>
     /\ cardHeader' = NoCard
     /\ UNCHANGED <<conversationHistory, stats, failures, nDeltas,
                    sends, nSends, apiKey>>
     /\ IF ~initialized /\ ~apiKey
          THEN \* claudeClient.initialize() throws
               /\ error' = UnknownHookError
               /\ streamState' = "error"
               /\ abortRef' = 0
               /\ calls' = [calls EXCEPT ![t] = c0]
               /\ UNCHANGED initialized
          ELSE /\ initialized' = TRUE
               /\ error' = NoError
               /\ streamState' = "streaming"
               /\ abortRef' = t
               /\ calls' = [calls EXCEPT ![t] =
                    openRequest([c0 EXCEPT !.messages =
                      BuildMessages(SliceLast(updatedHistory, HistoryWindow),
                                    text)])]

\* sendMessage(text), while the conversation has had fewer than `limit` turns
SendMessageWithin(limit) ==
  /\ nCalls < limit
  /\ \E text \in UserTexts \cup {BlankText} :
       IF text = BlankText THEN UNCHANGED <<aiVars>> ELSE sendMessage(text)
  /\ UNCHANGED voiceVars
  /\ UNCHANGED screenVars

SendMessage == SendMessageWithin(MaxTurns)

CancelStream ==
  /\ token' = abortCurrent
  /\ abortRef' = 0
  /\ streamState' = "idle"
  /\ UNCHANGED <<response, error, actions, cardHeader, conversationHistory>>
  /\ UNCHANGED <<apiKey, initialized, stats, calls, nCalls, failures, nDeltas, sends, nSends>>
  /\ UNCHANGED voiceVars
  /\ UNCHANGED screenVars

ClearResponse ==
  /\ token' = abortCurrent
  /\ abortRef' = 0
  /\ streamState' = "idle"
  /\ response' = <<>>
  /\ error' = NoError
  /\ actions' = <<>>
  /\ cardHeader' = NoCard
  /\ UNCHANGED conversationHistory
  /\ UNCHANGED <<apiKey, initialized, stats, calls, nCalls, failures, nDeltas, sends, nSends>>
  /\ UNCHANGED voiceVars
  /\ UNCHANGED screenVars

\* variant: clearHistory() empties the history without cancelling the turn
ClearHistoryKeepsStream ==
  /\ conversationHistory' = <<>>
  /\ UNCHANGED <<streamState, response, error, actions, cardHeader, abortRef>>
  /\ UNCHANGED clientVars
  /\ UNCHANGED voiceVars
  /\ UNCHANGED screenVars

ClearHistory ==
  /\ token' = abortCurrent
  /\ abortRef' = 0
  /\ streamState' = "idle"
  /\ response' = <<>>
  /\ error' = NoError
  /\ actions' = <<>>
  /\ cardHeader' = NoCard
  /\ conversationHistory' = <<>>
  /\ UNCHANGED <<apiKey, initialized, stats, calls, nCalls, failures, nDeltas, sends, nSends>>
  /\ UNCHANGED voiceVars
  /\ UNCHANGED screenVars

\* ========================================================================
\* The Completion Client called directly
\* ========================================================================
\* ensureInitialized(): auto-initialises from the stored key, or throws
CanInitialize == initialized \/ apiKey

\* claudeClient.stream(text, {abortSignal}) by a consumer that drains it
CallStream ==
  /\ nCalls < MaxDirect
  /\ \E text \in UserTexts :
       LET t == nCalls + 1
           c0 == [NoCall EXCEPT !.consumer = "direct"]
       IN /\ nCalls' = t
          /\ IF CanInitialize
               THEN /\ initialized' = TRUE
                    /\ calls' = [calls EXCEPT ![t] =
                         openRequest([c0 EXCEPT !.messages = BuildMessages(<<>>, text)])]
               ELSE /\ calls' = [calls EXCEPT ![t] =
                         [c0 EXCEPT !.pc = "raised", !.thrown = Unclassified,
                                    !.nThrown = 1]]
                    /\ UNCHANGED initialized
  /\ UNCHANGED <<apiKey, stats, token, failures, nDeltas, sends, nSends>>
  /\ UNCHANGED hookVars
  /\ UNCHANGED voiceVars
  /\ UNCHANGED screenVars

\* the caller aborts the AbortController whose signal it passed to call t
SignalToken(t) ==
  /\ ~token[t]
  /\ token' = [token EXCEPT ![t] = TRUE]
  /\ UNCHANGED <<apiKey, initialized, stats, calls, nCalls, failures, nDeltas, sends, nSends>>
  /\ UNCHANGED hookVars
  /\ UNCHANGED voiceVars
  /\ UNCHANGED screenVars

\* --- send() -------------------------------------------------------------
NoSend ==
  [pc |-> "none",        \* none | open | backoff | resolved | rejected
   retries |-> 0,
   attempts |-> 0,       \* client.messages.create(...) invocations
   delay |-> 0,
   lastErr |-> NoError,
   originalError |-> NoRaw,
   hint |-> -1,
   thrown |-> NoError,
   nThrown |-> 0,
   text |-> <<>>]

sendFailure(c, raw) ==
  LET e == classifyError(raw)
      c1 == [c EXCEPT !.lastErr = e, !.originalError = raw,
                     !.hint = raw.retryAfter]
  IN IF ShouldThrow(e, c.retries)
       THEN [c1 EXCEPT !.pc = "rejected", !.thrown = e, !.nThrown = @ + 1]
       ELSE [c1 EXCEPT !.pc = "backoff", !.retries = @ + 1,
                       !.delay = RetryDelay(e, c.retries + 1)]

\* after the sleep: the loop test, and the throw that follows the loop
sendAfterSleep(c) ==
  IF c.retries <= MAX_RETRIES
    THEN [c EXCEPT !.pc = "open", !.attempts = @ + 1]
    ELSE [c EXCEPT !.pc = "rejected",
                   !.thrown = classifyError(Raw("Error", {}, -1)),
                   !.nThrown = @ + 1]

CallSend ==
  /\ nSends < MaxSends
  /\ LET k == nSends + 1 IN
       /\ nSends' = k
       /\ IF CanInitialize
            THEN /\ initialized' = TRUE
                 /\ sends' = [sends EXCEPT ![k] =
                      [NoSend EXCEPT !.pc = "open", !.attempts = 1]]
            ELSE /\ sends' = [sends EXCEPT ![k] =
                      [NoSend EXCEPT !.pc = "rejected", !.thrown = Unclassified,
                                     !.nThrown = 1]]
                 /\ UNCHANGED initialized
  /\ UNCHANGED <<apiKey, stats, calls, token, nCalls, failures, nDeltas>>
  /\ UNCHANGED hookVars
  /\ UNCHANGED voiceVars
  /\ UNCHANGED screenVars

SendResolve(k) ==
  /\ sends[k].pc = "open"
  /\ \E u \in Usages : stats' = addUsage(stats, u)
  /\ \E d \in Deltas :
       sends' = [sends EXCEPT ![k] = [@ EXCEPT !.pc = "resolved", !.text = d]]
  /\ UNCHANGED <<apiKey, initialized, calls, token, nCalls, failures, nDeltas, nSends>>
  /\ UNCHANGED hookVars
  /\ UNCHANGED voiceVars
  /\ UNCHANGED screenVars

SendFail(k) ==
  /\ sends[k].pc = "open"
  /\ \E r \in RawErrors :
       sends' = [sends EXCEPT ![k] = sendFailure(@, r)]
  /\ UNCHANGED <<apiKey, initialized, stats, calls, token, nCalls, failures, nDeltas, nSends>>
  /\ UNCHANGED hookVars
  /\ UNCHANGED voiceVars
  /\ UNCHANGED screenVars

SendWake(k) ==
  /\ sends[k].pc = "backoff"
  /\ sends' = [sends EXCEPT ![k] = sendAfterSleep(@)]
  /\ UNCHANGED <<apiKey, initialized, stats, calls, token, nCalls, failures, nDeltas, nSends>>
  /\ UNCHANGED hookVars
  /\ UNCHANGED voiceVars
  /\ UNCHANGED screenVars

ResetSessionStats ==
  /\ stats' = [inputTokens |-> 0, outputTokens |-> 0, requestCount |-> 0]
  /\ UNCHANGED <<apiKey, initialized, calls, token, nCalls, failures, nDeltas, sends, nSends>>
  /\ UNCHANGED hookVars
  /\ UNCHANGED voiceVars
  /\ UNCHANGED screenVars

\* ========================================================================
\* Specifications
\* ========================================================================
vars == <<voiceVars, aiVars, screenVars>>

AIInit ==
  /\ initialized = FALSE
  /\ stats = [inputTokens |-> 0, outputTokens |-> 0, requestCount |-> 0]
  /\ calls = [t \in 1..MaxLongTurns |-> NoCall]
  /\ token = [t \in 1..MaxLongTurns |-> FALSE]
  /\ nCalls = 0
  /\ failures = 0
  /\ nDeltas = 0
  /\ sends = [k \in 1..MaxSends |-> NoSend]
  /\ nSends = 0
  /\ streamState = "idle"
  /\ response = <<>>
  /\ error = NoError
  /\ actions = <<>>
  /\ cardHeader = NoCard
  /\ conversationHistory = <<>>
  /\ abortRef = 0

\* the Completion Client and the Controller run beside an idle Speech Session
\* executeAction() has not been called
ScreenInit == dispatched = <<>>

Init ==
  /\ VoiceInit /\ hasModule = TRUE /\ micPermission = TRUE
  /\ AIInit /\ apiKey \in BOOLEAN
  /\ ScreenInit

Next ==
  \/ SendMessage \/ CancelStream \/ ClearResponse \/ ClearHistory
  \/ \E t \in 1..MaxTurns : StreamEvent(t)
  \/ \E t \in 1..MaxTurns : StreamEnd(t)
  \/ \E t \in 1..MaxTurns : StreamFail(t)
  \/ \E t \in 1..MaxTurns : BackoffWake(t)

Spec == Init /\ [][Next]_vars

\* the transport eventually answers or fails each attempt, and each sleep
\* of the retry loop ends
SpecLive ==
  /\ Spec
  /\ \A t \in 1..MaxTurns :
       WF_vars(StreamEnd(t) \/ StreamFail(t)) /\ WF_vars(BackoffWake(t))

ClientNext ==
  \/ CallStream \/ CallSend \/ ResetSessionStats
  \/ \E t \in 1..MaxDirect : SignalToken(t)
  \/ \E t \in 1..MaxDirect : StreamEvent(t)
  \/ \E t \in 1..MaxDirect : StreamEnd(t)
  \/ \E t \in 1..MaxDirect : StreamFail(t)
  \/ \E t \in 1..MaxDirect : BackoffWake(t)
  \/ \E k \in 1..MaxSends : SendResolve(k)
  \/ \E k \in 1..MaxSends : SendFail(k)
  \/ \E k \in 1..MaxSends : SendWake(k)

SpecClient == Init /\ [][ClientNext]_vars

\* a long conversation: turns that are sent and whose streams end
LongNext ==
  \/ SendMessageWithin(MaxLongTurns)
  \/ \E t \in 1..MaxLongTurns : StreamEnd(t)

SpecLong == Init /\ [][LongNext]_vars

\* --- the command screen: action buttons ----------------------------------
\* text deltas of a response that ends in an ACTIONS line
ScreenDeltas == {<<"txt">>, <<"nl", "ACT:[", "eW", "eA", "]">>}

\* ActionButton.onPress -> handleAction(command) -> handleSendMessage(command,
\* 'text') -> sendMessage(command): button i of the action row is pressed
PressAction(i) ==
  /\ nCalls < MaxTurns
  /\ i \in 1..Len(actions)
  /\ sendMessage(actions[i].command)
  /\ UNCHANGED dispatched
  /\ UNCHANGED voiceVars

MaxButtons == 2

ScreenNext ==
  \/ SendMessage
  \/ \E t \in 1..MaxTurns : StreamEventFrom(t, ScreenDeltas)
  \/ \E t \in 1..MaxTurns : StreamEnd(t)
  \/ \E i \in 1..MaxButtons : PressAction(i)

SpecScreen == Init /\ [][ScreenNext]_vars

\* --- the directive parsers on their own ----------------------------------
\* Lines a response may consist of: body text, blank lines, and CARD and
\* ACTIONS lines that are well formed, cut short, followed by more text, or
\* carry JSON that does not parse or entries that are not actions.
LineShapes ==
  { <<"txt">>, <<"txt", "sp", "txt">>, <<>>, <<"sp">>,
    <<"CARD:{T", "}">>, <<"CARD:{T", "}", "sp">>, <<"CARD:{T">>,
    <<"CARD:{T", "}", "txt">>, <<"CARD:{T", "txt", "}">>, <<"CARD:{N", "}">>,
    <<"ACT:[", "]">>, <<"ACT:[", "eA", "]">>, <<"ACT:[", "eP", "]">>,
    <<"ACT:[", "e5", "]">>, <<"ACT:[", "e..", "]">>,
    <<"ACT:[", "eA", "eW", "]">>, <<"ACT:[", "eL", "eA", "]">>,
    <<"ACT:[", "null", "eA", "]">>, <<"ACT:[", "eA", "null", "]">>,
    <<"ACT:[", "eW", "7", "eA", "]">>,
    <<"ACT:[", "eA">>, <<"ACT:[", "eA", "]", "txt">>,
    <<"ACT:[", "eA", "]", "sp">> }

NumLines(text) == IF text = <<>> THEN 0 ELSE Len(SplitLines(text))

\* The text grows by one line, as the accumulated text of a stream does, and
\* parseActions and parseCardHeader are applied to it; actions and
\* cardHeader hold what they return.
ReceiveLine(l) ==
  /\ NumLines(response) < MaxLines
  /\ response' = (IF response = <<>> THEN l ELSE response \o <<"nl">> \o l)
  /\ actions' = parseActions(response')
  /\ cardHeader' = parseCardHeader(response')
  /\ UNCHANGED <<voiceVars, clientVars, streamState, error,
                 conversationHistory, abortRef>>
  /\ UNCHANGED screenVars

ParserInit == Init /\ apiKey = TRUE

ParserNext == \E l \in LineShapes : ReceiveLine(l)

SpecParser == ParserInit /\ [][ParserNext]_vars

\* the platform may lack the native module (not Android, or not linked) and
\* the user may have denied the microphone permission
VoiceOnlyInit ==
  /\ VoiceInit /\ hasModule \in BOOLEAN /\ micPermission \in BOOLEAN
  /\ AIInit /\ apiKey = TRUE
  /\ ScreenInit

SpecVoice == VoiceOnlyInit /\ [][VoiceNext]_vars

\* a timer that was armed expires: the event loop runs its callback
SpecVoiceFair ==
  SpecVoice /\ WF_vars(ErrTimerFire) /\ WF_vars(StopTimerFire)

\* the event loop also runs every listener whose event is pending, and the
\* native main handler runs every posted command; the recognizer itself is
\* free to report nothing more
SpecVoiceLive ==
  /\ SpecVoiceFair
  /\ WF_vars(NativeStep) /\ WF_vars(DropEvent)
  /\ WF_vars(OnSpeechStart) /\ WF_vars(OnSpeechPartialResults)
  /\ WF_vars(OnSpeechResults) /\ WF_vars(OnSpeechEnd)
  /\ WF_vars(OnSpeechError) /\ WF_vars(OnSpeechCancel)

\* ========================================================================
\* Properties
\* ========================================================================
Turns == 1..MaxTurns
OpenRequests == {t \in Turns : calls[t].pc = "open"}

\* C1: for each start() the final-result callback is invoked at most once
\* before the next start(), whatever the order of stop(), the fallback timer
\* and the platform's final-result event.
C1_FinalAtMostOncePerStart == finalCount <= 1

\* C2: at every moment at most one transport request of the controller is
\* outstanding (a superseded turn's request is gone before the new one is
\* issued).
C2_OneRequestOutstanding == Cardinality(OpenRequests) <= 1

\* C3: a call whose cancellation token is signalled while it waits out a
\* retry backoff issues no further transport request.
C3_NoAttemptAfterCancel ==
  [][\A t \in Turns :
       (token[t] /\ calls[t].pc = "backoff")
         => calls'[t].attempts = calls[t].attempts]_vars

\* C4: stream() and send() never make more than 1 + MAX_RETRIES transport
\* calls nor more than MAX_RETRIES retries, and a call that ends by raising a
\* retryable classification has made exactly 1 + MAX_RETRIES transport calls
\* and raised exactly one error, the classification of its last attempt.
ExhaustsCorrectly(c, failed) ==
  /\ c.attempts <= MAX_RETRIES + 1
  /\ c.retries <= MAX_RETRIES
  /\ (c.pc = failed /\ c.thrown.retryable)
       => /\ c.attempts = MAX_RETRIES + 1
          /\ c.retries = MAX_RETRIES
          /\ c.nThrown = 1
          /\ c.thrown = c.lastErr
  /\ c.nThrown <= 1
C4_ExhaustedRetries ==
  /\ \A t \in Turns : ExhaustsCorrectly(calls[t], "raised")
  /\ \A k \in 1..MaxSends : ExhaustsCorrectly(sends[k], "rejected")
C4_Witness ==
  /\ \E t \in Turns :
       /\ calls[t].pc = "raised" /\ calls[t].thrown.retryable
       /\ calls[t].attempts = MAX_RETRIES + 1
  /\ \E k \in 1..MaxSends :
       /\ sends[k].pc = "rejected" /\ sends[k].thrown.retryable
       /\ sends[k].attempts = MAX_RETRIES + 1

\* C5: after a network or server failure, retry k is preceded by a wait of
\* BASE_RETRY_DELAY_MS * 2^(k-1) ms (1 s, 2 s, 4 s).
C5_ExponentialBackoff ==
  \A t \in Turns :
    (calls[t].pc = "backoff" /\ calls[t].lastErr.type \in {"network", "server"})
      => calls[t].delay = BASE_RETRY_DELAY_MS * Pow2(calls[t].retries - 1)

\* C6: within one stream() call every chunk's accumulated text extends the
\* accumulated text of the chunk before it, also across an internal retry.
C6_AccumulatedNeverShrinks ==
  [][\A t \in Turns :
       (calls'[t].chunks > calls[t].chunks /\ calls[t].lastAcc # NoChunk)
         => IsPrefix(calls[t].lastAcc, calls'[t].lastAcc)]_vars

\* C7: the latest turn has failed (stream() raised a classified error that
\* the controller reports) and nothing was called since.
FailedTurn(t) ==
  /\ t = nCalls
  /\ calls[t].pc = "raised"
  /\ ~token[t]
  /\ streamState = "error"
UserMessageOf(t) == calls[t].updatedHistory[Len(calls[t].updatedHistory)]
HistoryBefore(t) ==
  SubSeq(calls[t].updatedHistory, 1, Len(calls[t].updatedHistory) - 1)

C8_CancelledTurnIsSilent ==
  [][\A t \in Turns :
       (token[t] /\ calls'[t] # calls[t])
         => UNCHANGED <<streamState, response, error, actions,
                        conversationHistory>>]_vars

\* C9: cancelStream() on a turn that has delivered a chunk but not the final
\* one leaves the controller `idle`, and no later step of a cancelled request
\* changes the response, the actions, the card header or the history.
C9_CancelMidStream ==
  [][/\ \A t \in Turns :
          (/\ ~token[t] /\ token'[t] /\ abortRef' = 0
           /\ calls[t].chunks >= 1 /\ calls[t].completes = 0)
            => streamState' = "idle"
     /\ \A t \in Turns :
          (token[t] /\ calls'[t] # calls[t])
            => UNCHANGED <<response, actions, cardHeader, conversationHistory>>
    ]_vars
\* the final chunk of a request cancelled after its first chunk has arrived
C9_Witness ==
  /\ nCalls = 1
  /\ token[1]
  /\ calls[1].chunks = 2
  /\ calls[1].completes = 1
  /\ streamState = "idle"
  /\ response = <<"CARD:{T", "}">>
  /\ conversationHistory = <<>>

\* C10: once its cancellation token is signalled, stream() yields no further
\* chunk, neither a delta chunk nor the final isComplete chunk.
C10_NoChunkAfterToken ==
  [][\A t \in Turns : token[t] => calls'[t].chunks = calls[t].chunks]_vars

\* C11: the message list of a turn's request is the bounded prior history
\* followed by the new user turn: the new utterance is there once, last.
C11_UserTurnOnceAndLast ==
  \A t \in Turns :
    (ByHook(t) /\ calls[t].attempts >= 1)
      => calls[t].messages =
           Append(SliceLast(HistoryBefore(t), HistoryWindow), UserMessageOf(t))

\* C12: once destroy() was called (the subscriptions are gone), start(),
\* stop() and cancel() do nothing: the state stays `idle`, no callback fires
\* and no native command is issued (a further destroy() may issue its own).
C12_DestroyedIsInert ==
  [][~subscribed =>
       /\ vState' = "idle"
       /\ finalCount' <= finalCount
       /\ errorCount' <= errorCount
       /\ Len(cmdQ') > Len(cmdQ) => cmdQ'[Len(cmdQ')] = "destroy"]_vars

\* C13: cancel() in `listening` or `processing` leaves the session `idle`
\* with the partial transcript discarded, and until the next start() no
\* final-result callback is invoked, whatever event or timer arrives.
C13_CancelledCaptureIsSilent ==
  [][/\ (~cancelled /\ cancelled') => (vState' = "idle" /\ latestPartial' = "")
     /\ (cancelled /\ cancelled') => finalCount' = finalCount]_vars

\* C14: start() in `listening` issues the stop of the current capture before
\* the start of the new one, and never is more than one native recognizer
\* alive.
C14_OneCaptureAtATime ==
  [][/\ (/\ hasModule /\ vState = "listening"
          /\ Len(cmdQ') > Len(cmdQ) /\ cmdQ'[Len(cmdQ')] = "start")
           => cmdQ' = cmdQ \o <<"stop", "start">>
     /\ liveRecognizers' <= 1]_vars
\* the restarted capture: the stop then the start are posted, one recognizer
C14_Witness ==
  /\ cmdQ = <<"stop", "start">>
  /\ vState = "listening"
  /\ rec = "listening"
  /\ stopTimers = 1
  /\ liveRecognizers = 1

\* C15: when the fallback timer of stop() expires in `processing` (no final
\* result arrived), the session goes to `idle`; the registered final-result
\* callback is invoked with the last partial if it is non-empty, and not
\* invoked if it is empty.
C15_GraceTimerSettles ==
  [][(stopTimers' < stopTimers /\ vState = "processing")
       => /\ vState' = "idle"
          /\ (latestPartial # "" /\ hasCallbacks)
               => (finalCount' = finalCount + 1 /\ lastFinal' = latestPartial)
          /\ latestPartial = "" => finalCount' = finalCount]_vars
\* the timer expired with the partial "a" while the recognizer had reported
\* no result
C15_Witness ==
  /\ vState = "idle"
  /\ stopTimers = 0
  /\ rec = "ended"
  /\ evQ = <<>>
  /\ cmdQ = <<>>
  /\ finalCount = 1
  /\ lastFinal = "a"
  /\ latestPartial = "a"

\* C16: the session never stays in `error`: whenever it is in `error` it
\* later is not, without any call from outside.
C16_ErrorIsTransient == (vState = "error") ~> (vState # "error")

\* C19: without the microphone permission no native capture is ever
\* started, the session is never `listening`, and an error that start()
\* reports is classified permission_denied.
C19_DeniedNeverCaptures ==
  ~micPermission =>
    /\ \A i \in 1..Len(cmdQ) : cmdQ[i] # "start"
    /\ rec = "none"
    /\ vState # "listening"
    /\ errorCount > 0 => lastVoiceError.code = "permission_denied"

\* C17: an attempt is retried only after a network, rate_limit or server
\* failure, and a call raises one of these three only at the retry ceiling;
\* every other classification is raised after the attempt that met it.
Transient == {"network", "rate_limit", "server"}
C17_RetryOnlyTransient ==
  \A t \in Turns :
    /\ calls[t].pc = "backoff" => calls[t].lastErr.type \in Transient
    /\ (calls[t].pc = "raised" /\ calls[t].thrown.type \in Transient)
         => calls[t].attempts = MAX_RETRIES + 1

\* C18: a turn sent while there is no credential (client not initialised,
\* no stored key) ends in an `auth` error that is not retryable, and no
\* transport request was issued for it.
NoCredentialTurn(t) ==
  /\ t = nCalls
  /\ ByHook(t)
  /\ calls[t].pc = "none"
  /\ streamState = "error"
C18_NoCredentialIsAuth ==
  \A t \in Turns :
    NoCredentialTurn(t)
      => /\ error.type = "auth"
         /\ ~error.retryable
         /\ calls[t].attempts = 0

\* C20: while a call waits after a rate-limit failure whose message carried
\* a retry-after hint of h seconds, the wait is at least h * 1000 ms.
WaitsOutHint(c) ==
  (c.pc = "backoff" /\ c.lastErr.type = "rate_limit" /\ c.hint >= 0)
    => c.delay >= c.hint * 1000
C20_RetryAfterHonoured ==
  /\ \A t \in Turns : WaitsOutHint(calls[t])
  /\ \A k \in 1..MaxSends : WaitsOutHint(sends[k])
\* the second retry (2 s by the exponential schedule) waits the hinted 15 s
C20_Witness ==
  \E t \in Turns :
    /\ calls[t].pc = "backoff"
    /\ calls[t].lastErr.type = "rate_limit"
    /\ calls[t].hint = 15
    /\ calls[t].retries = 2
    /\ calls[t].delay = 15000

\* C21: a stream() call that is not cancelled ends either with exactly one
\* isComplete chunk, its last chunk, carrying the accumulated text, or with
\* exactly one raised classified error, never with both; after the final chunk
\* the call has ended.
ClassifiedTypes == {"network", "auth", "rate_limit", "server", "timeout", "unknown"}
EndsOneWay(c) ==
  /\ c.completes <= 1
  /\ c.nThrown <= 1
  /\ c.completes + c.nThrown <= 1
  /\ c.pc = "returned" => (c.completes = 1 /\ c.lastAcc = c.acc)
  /\ c.pc = "raised" => (c.nThrown = 1 /\ c.thrown.type \in ClassifiedTypes)
  /\ c.completes = 1 => c.pc = "returned"
C21_OneTermination == \A t \in Turns : ~token[t] => EndsOneWay(calls[t])

\* C23: the session statistics change only on resetSessionStats() or when
\* a stream() call that is not cancelled yields its final chunk or a send()
\* call resolves, and then requestCount grows by exactly 1.
ZeroStats == [inputTokens |-> 0, outputTokens |-> 0, requestCount |-> 0]
C23_StatsOnlyOnSuccess ==
  [][stats' # stats =>
       \/ stats' = ZeroStats
       \/ /\ stats'.requestCount = stats.requestCount + 1
          /\ \/ \E t \in Turns :
                  /\ ~token[t]
                  /\ calls[t].pc = "open" /\ calls'[t].pc = "returned"
                  /\ calls'[t].completes = calls[t].completes + 1
             \/ \E k \in 1..MaxSends :
                  sends[k].pc = "open" /\ sends'[k].pc = "resolved"]_vars

\* C29: when the latest turn is `complete`, actions and cardHeader are the
\* parser's results on the final accumulated text, and the history ends with
\* the assistant turn carrying that text.
CompletedTurn(t) ==
  /\ t = nCalls
  /\ ByHook(t)
  /\ ~token[t]
  /\ calls[t].completes = 1
  /\ streamState = "complete"
C29_CompleteMatchesParser ==
  \A t \in Turns :
    CompletedTurn(t)
      => /\ actions = parseActions(calls[t].lastAcc)
         /\ cardHeader = parseCardHeader(calls[t].lastAcc)
         /\ conversationHistory # <<>>
         /\ conversationHistory[Len(conversationHistory)]
              = Msg("assistant", calls[t].lastAcc)

\* C30: while the turn the controller is working on has delivered no chunk
\* the controller is `sending`; it is `streaming` only once a chunk of that
\* turn has arrived; and the streamState only moves idle -> sending ->
\* streaming -> complete | error, or back to idle (the step that accepts a
\* turn sets `sending` first, so its move is counted from `sending`).
CurrentTurn(t) == t = nCalls /\ ByHook(t) /\ abortRef = t /\ Active(calls[t])
StateMoves ==
  {<<"idle", "sending">>, <<"sending", "streaming">>, <<"sending", "error">>,
   <<"streaming", "complete">>, <<"streaming", "error">>}
C30_SendingUntilFirstChunk ==
  /\ [](\A t \in Turns :
          CurrentTurn(t)
            => streamState = (IF calls[t].chunks = 0 THEN "sending" ELSE "streaming"))
  /\ [][streamState' # streamState =>
          \/ streamState' = "idle"
          \/ <<IF nCalls' # nCalls THEN "sending" ELSE streamState, streamState'>>
                \in StateMoves]_vars

\* C22: the history a turn passes to its request (the message list without
\* the user message stream() appends) has at most HistoryWindow entries and
\* is the most recent part of the turn's history, in the same order.
LongTurns == 1..MaxLongTurns
IsSuffix(a, b) == Len(a) <= Len(b) /\ SubSeq(b, Len(b) - Len(a) + 1, Len(b)) = a
PassedHistory(t) == SubSeq(calls[t].messages, 1, Len(calls[t].messages) - 1)
C22_HistoryWindowed ==
  \A t \in LongTurns :
    (ByHook(t) /\ calls[t].attempts >= 1)
      => /\ Len(PassedHistory(t)) <= HistoryWindow
         /\ Len(PassedHistory(t)) >= HistoryWindow
              \/ Len(PassedHistory(t)) = Len(calls[t].updatedHistory)
         /\ IsSuffix(PassedHistory(t), calls[t].updatedHistory)
\* the sixth turn, after five completed ones: eleven entries, ten passed
C22_Witness ==
  \E t \in LongTurns :
    /\ calls[t].attempts >= 1
    /\ Len(calls[t].updatedHistory) = HistoryWindow + 1
    /\ Len(PassedHistory(t)) = HistoryWindow


\* --- directive parsers ---------------------------------------------------

\* the first line of the text that the ACTIONS pattern matches, if its
\* array is well-formed JSON
ActionsArray(text) ==
  LET ls == SelectSeq(SplitLines(text), IsActionsLine)
      elems == SubSeq(ls[1], 2, LastNonSp(ls[1]) - 1)
  IN IF ls # <<>> /\ \A i \in 1..Len(elems) : elems[i] \in ElementAtoms
       THEN elems ELSE <<"<none>">>

\* entries of the array that have a string label and a string command
UsableEntries == {"eA", "eW", "eP"}
IsUsable(e) == e \in UsableEntries
LabelCommand(a) == <<a.label, a.command>>
EntryLabelCommand(e) ==
  CASE e = "eA" -> <<"A", "c">> [] e = "eW" -> <<"W", "w">> [] OTHER -> <<"P", "p">>

\* C24: for an ACTIONS array of well-formed JSON, the parsed actions are
\* exactly the entries that have a string label and a string command, in
\* order: entries lacking one of them, with a non-string one, null entries
\* and entries that are not objects are dropped, the others are kept.
C24_InvalidEntriesDropped ==
  ActionsArray(response) # <<"<none>">> =>
    LET usable == SelectSeq(ActionsArray(response), IsUsable) IN
      /\ actions = parseActions(response)
      /\ Len(actions) = Len(usable)
      /\ \A i \in 1..Len(usable) :
           LabelCommand(actions[i]) = EntryLabelCommand(usable[i])

RecognisedVariants == {"primary", "success", "warning", "danger", "default"}

\* C25: every parsed action carries one of the five recognised variants; an
\* absent or unrecognised variant is replaced by "default".
C25_VariantRecognised ==
  /\ actions = parseActions(response)
  /\ \A i \in 1..Len(actions) : actions[i].variant \in RecognisedVariants

\* lines that carry a directive keyword, and those of them that are a
\* complete directive of well-formed JSON
HasCardKeyword(l) == l # <<>> /\ l[1] \in CardOpeners
HasActionsKeyword(l) == l # <<>> /\ l[1] = "ACT:["
WellFormedCard(l) == l \in {<<"CARD:{T", "}">>, <<"CARD:{T", "}", "sp">>,
                            <<"CARD:{N", "}">>}
WellFormedActions(l) ==
  /\ IsActionsLine(l)
  /\ \A i \in 2..(LastNonSp(l) - 1) : l[i] \in ElementAtoms
OnlyMalformedCard(text) ==
  /\ \E i \in 1..Len(SplitLines(text)) : HasCardKeyword(SplitLines(text)[i])
  /\ \A i \in 1..Len(SplitLines(text)) : ~WellFormedCard(SplitLines(text)[i])
OnlyMalformedActions(text) ==
  /\ \E i \in 1..Len(SplitLines(text)) : HasActionsKeyword(SplitLines(text)[i])
  /\ \A i \in 1..Len(SplitLines(text)) : ~WellFormedActions(SplitLines(text)[i])

\* C26: on any text the parsers return a value, no exception leaves them; a
\* text whose CARD (ACTIONS) directive is cut short or is not well-formed
\* JSON gives what a text without the directive gives: no card header (no
\* actions).
C26_MalformedIsAbsent ==
  /\ actions = parseActions(response)
  /\ cardHeader = parseCardHeader(response)
  /\ actions # ThrownActions
  /\ cardHeader # ThrownCard
  /\ OnlyMalformedActions(response) => actions = <<>>
  /\ OnlyMalformedCard(response) => cardHeader = NoCard

C26_Witness ==
  /\ \E i \in 1..Len(SplitLines(response)) :
       SplitLines(response)[i] = <<"ACT:[", "e..", "]">>
  /\ \E i \in 1..Len(SplitLines(response)) :
       SplitLines(response)[i] = <<"CARD:{T", "txt", "}">>
  /\ OnlyMalformedActions(response) /\ OnlyMalformedCard(response)
  /\ actions = <<>> /\ cardHeader = NoCard

IsBlank(l) == \A i \in 1..Len(l) : l[i] = "sp"
NotBlank(l) == ~IsBlank(l)
IsBodyLine(l) == ~IsBlank(l) /\ ~IsCardLine(l) /\ ~IsActionsLine(l)
ListsActionsOnly(l) ==
  IsActionsLine(l) => \A i \in 2..(LastNonSp(l) - 1) : l[i] \in UsableEntries
\* an entry as it is written in the text
Listed(e) ==
  CASE e = "eA" -> [label |-> "A", command |-> "c", variant |-> "default",
                    params |-> Undefined]
    [] e = "eW" -> [label |-> "W", command |-> "w", variant |-> "warning",
                    params |-> "k=v"]
    [] OTHER    -> [label |-> "P", command |-> "p", variant |-> "purple",
                    params |-> Undefined]

\* C27: for a text with at most one CARD line and at most one ACTIONS line
\* whose entries are actions, the display text has no surrounding whitespace
\* and consists of the lines of the text other than the directive lines, in
\* order (blank lines aside), and the actions are the entries of the ACTIONS
\* line in order, with label, command and params as written and the variant
\* as written or "default" when none is written.
C27_DirectivesRemoved ==
  LET lines == SplitLines(response)
      al == SelectSeq(lines, IsActionsLine)
      entries == IF al = <<>> THEN <<>>
                 ELSE SubSeq(al[1], 2, LastNonSp(al[1]) - 1)
  IN (/\ Len(SelectSeq(lines, IsCardLine)) <= 1
      /\ Len(SelectSeq(lines, IsActionsLine)) <= 1
      /\ \A i \in 1..Len(lines) : ListsActionsOnly(lines[i]))
     =>
     /\ displayText = Trim(displayText)
     /\ SelectSeq(SplitLines(displayText), NotBlank) = SelectSeq(lines, IsBodyLine)
     /\ actions = parseActions(response)
     /\ actions = [i \in 1..Len(entries) |-> Listed(entries[i])]

C27_Witness ==
  /\ response = <<"CARD:{T", "}", "nl", "txt", "nl", "ACT:[", "eA", "eW", "]">>
  /\ displayText = <<"txt">>
  /\ actions = <<Listed("eA"), Listed("eW")>>

\* C28: on every prefix of the text each parser gives either nothing or what
\* it gives on the whole text, and what a parser gives on a prefix it gives
\* on every longer prefix.
C28_PrefixStable ==
  \A k \in 0..Len(response) :
    LET pre == SubSeq(response, 1, k) IN
      /\ parseActions(pre) \in {<<>>, parseActions(response)}
      /\ parseCardHeader(pre) \in {NoCard, parseCardHeader(response)}
      /\ \A j \in 0..k :
           LET shorter == SubSeq(response, 1, j) IN
             /\ parseActions(shorter) # <<>> =>
                  parseActions(pre) = parseActions(shorter)
             /\ parseCardHeader(shorter) # NoCard =>
                  parseCardHeader(pre) = parseCardHeader(shorter)

\* --- final results and error codes ---------------------------------------

\* the step is the onSpeechResults listener taking the oldest event
ResultsDelivered == Delivering("onSpeechResults") /\ evQ' = Tail(evQ)

\* C31: when a final-result event is delivered, the partial transcript is
\* cleared and the state becomes idle; when its payload is empty (no value or
\* an empty string) and a partial transcript exists, the final-result
\* callback is invoked with that partial transcript.
C31_EmptyFinalFallsBack ==
  [][ResultsDelivered =>
       /\ latestPartial' = ""
       /\ vState' = "idle"
       /\ (Head(evQ).value \in {NoText, ""} /\ latestPartial # "" /\ hasCallbacks)
            => (finalCount' = finalCount + 1 /\ lastFinal' = latestPartial)]_vars

\* --- classification order --------------------------------------------------

\* the first category, in the order cancellation, network, authentication,
\* rate limiting, client bad request, server, generic fallback, that a raw
\* error matches
EarliestCategory(e) ==
  IF e.name = "AbortError" \/ "aborted" \in e.has THEN "cancellation"
  ELSE IF e.has \cap {"network", "fetch", "econnrefused", "enotfound"} # {}
    THEN "network"
  ELSE IF e.has \cap {"401", "unauthorized", "authentication"} # {} THEN "auth"
  ELSE IF e.has \cap {"429", "rate limit", "too many"} # {} THEN "rate_limit"
  ELSE IF "400" \in e.has THEN "bad_request"
  ELSE IF e.has \cap {"500", "502", "503", "529", "overloaded"} # {} THEN "server"
  ELSE "fallback"

\* the category a classification stands for
CategoryOf(ai) ==
  CASE ai.type = "timeout" /\ ~ai.retryable -> "cancellation"
    [] ai.type = "unknown" -> "fallback"
    [] OTHER -> ai.type

\* C32: each failed attempt is classified as the first category, in the
\* order cancellation, network, authentication, rate limiting, client bad
\* request, server, generic fallback, that its raw error matches.
C32_FirstMatchInOrder ==
  /\ \A t \in Turns :
       calls[t].lastErr # NoError =>
         CategoryOf(calls[t].lastErr) = EarliestCategory(calls[t].originalError)
  /\ \A k \in 1..MaxSends :
       sends[k].lastErr # NoError =>
         CategoryOf(sends[k].lastErr) = EarliestCategory(sends[k].originalError)

\* --- clearHistory ----------------------------------------------------------

\* C33: clearHistory() empties the history and cancels every turn in flight;
\* a cancelled turn never changes the history, and the history becomes
\* non-empty again only when a turn that is not cancelled completes.
C33_ClearedHistoryStaysClear ==
  [][/\ ClearHistory =>
          /\ conversationHistory' = <<>>
          /\ \A t \in Turns : (ByHook(t) /\ Active(calls[t])) => token'[t]
     /\ \A t \in Turns :
          (token[t] /\ calls'[t] # calls[t]) =>
            conversationHistory' = conversationHistory
     /\ conversationHistory' \notin {conversationHistory, <<>>} =>
          \E t \in Turns :
            ~token[t] /\ calls'[t].completes = calls[t].completes + 1]_vars

\* a first turn completed, clearHistory() came during the second, and the
\* second turn's stream has ended since
C33_Witness ==
  /\ calls[1].completes = 1 /\ ~token[1]
  /\ token[2] /\ calls[2].pc = "returned" /\ calls[2].chunks > 0
  /\ conversationHistory = <<>>

\* --- platform error codes --------------------------------------------------

\* the step is the onSpeechError listener taking the oldest event
ErrorDelivered == Delivering("onSpeechError") /\ evQ' = Tail(evQ)

TableCodes == {"1", "2", "3", "4", "5", "6", "7", "8", "9", "10", "11", "12", "13"}
\* codes the table does not hold; "" is a missing code
OtherCodes == {"", "0", "14", "99"}

\* C34: a code of the lookup table maps to its entry and to no other, any
\* other code (a missing one too) maps to `unknown`; each platform error
\* event puts the session in `error` and invokes the error callback exactly
\* once, with the error its code maps to.
C34_ErrorCodeMapped ==
  [][ErrorDelivered =>
       LET code == Head(evQ).value IN
         /\ vState' = "error"
         /\ errorCount' = errorCount + 1
         /\ lastVoiceError' = mapAndroidError(code)
         /\ code \in TableCodes => lastVoiceError' = ANDROID_ERROR[code]
         /\ code \notin TableCodes => lastVoiceError'.code = "unknown"
         /\ \A c \in TableCodes : mapAndroidError(c).code # "unknown"
         /\ \A c, d \in TableCodes :
              mapAndroidError(c).code = mapAndroidError(d).code => c = d
         /\ \A c \in OtherCodes : mapAndroidError(c).code = "unknown"]_vars

C34_Witness ==
  /\ vState = "error"
  /\ errorCount = 1
  /\ lastVoiceError.code = "unknown"

\* --- captures and their timers ---------------------------------------------

\* the step runs the callback of a timer that an earlier capture armed
StaleTimerFires ==
  \/ stopTimers' < stopTimers /\ staleStopTimers > 0
  \/ errTimers' < errTimers /\ staleErrTimers > 0

\* C35: the callback of a stop-fallback timer or of an error cool-down timer
\* that an earlier capture armed leaves the state of the capture started
\* since unchanged and delivers no final result during it.
C35_CapturesIsolated ==
  [][StaleTimerFires => (vState' = vState /\ finalCount' = finalCount)]_vars

\* --- message lists ---------------------------------------------------------

Alternates(m) ==
  /\ m[1].role = "user"
  /\ \A i \in 1..(Len(m) - 1) : m[i].role # m[i + 1].role

\* C36: every message list the controller hands to the transport starts
\* with a user message and alternates user and assistant messages.
C36_MessagesAlternate ==
  \A t \in Turns :
    (ByHook(t) /\ calls[t].attempts > 0) => Alternates(calls[t].messages)

\* C37: a session that is in `processing` eventually leaves it, without any
\* further event of the platform.
C37_ProcessingEnds == (vState = "processing") ~> (vState # "processing")

DirectiveAtoms ==
  CardOpeners \cup ElementAtoms \cup {"ACT:[", "]", "}", "e.."}

\* C38: the display text of the accumulated text never contains text of a
\* CARD or ACTIONS line, also while the line has arrived only in part.
C38_NoDirectiveInDisplay ==
  \A i \in 1..Len(displayText) : displayText[i] \notin DirectiveAtoms

\* C39: pressing an action button passes the action's command together with
\* its params to executeAction.
C39_ActionDispatched ==
  [][\A i \in 1..MaxButtons :
       PressAction(i) =>
         dispatched' = Append(dispatched, [command |-> actions[i].command,
                                           params |-> actions[i].params])]_vars

\* --- turns end -------------------------------------------------------------

Busy == streamState \in {"sending", "streaming"}

\* C40: when the transport answers or fails every attempt, a controller that
\* is in `sending` or `streaming` eventually is in `complete`, `error` or
\* `idle`, whatever sendMessage, cancelStream and clearHistory calls come in
\* between.
C40_TurnEnds == Busy ~> (streamState \in {"complete", "error", "idle"})

\* a turn was superseded by a second one, which failed
C40_Witness ==
  /\ nCalls = 2 /\ token[1] /\ ~token[2]
  /\ calls[2].pc = "raised"
  /\ streamState = "error"

====
